---- MODULE Spec2Model ----
(***************************************************************************)
(* A model of src/hello-word/2048.py: the tile and board types, the four   *)
(* directional transforms built on LeftTransform, the SpawnTransform and   *)
(* the Game controller.                                                    *)
(*                                                                         *)
(* A tile is a natural number: BLANK_TILE is 0 and TilePower(n) is n, for  *)
(* 1 <= n <= 11.  A row is a sequence of tiles and a board a sequence of   *)
(* rows.  A Python call either returns a value or raises: its result is    *)
(* the record [exc |-> "none", val |-> v] or [exc |-> kind, val |-> <<>>]. *)
(***************************************************************************)
EXTENDS Integers, Sequences, FiniteSets, TLC

VARIABLES
    board,       \* Game._board; in the pure specifications, the argument board
    prev,        \* Game._board as it was when the last swipe was called
    dir,         \* the direction the last swipe was called with
    next_board,  \* the local next_board of the last swipe (<<>> when not computed)
    outcome,     \* how the last swipe ended: "none" before any swipe
    calls,       \* the transforms the last swipe invoked, in order
    nswipes,     \* the number of swipe calls made so far
    row,         \* the argument row of transform_row (row specification)
    op,          \* the operation applied last in the pure specifications
    result,      \* what that operation returned or raised
    start,       \* how the game was made: "run_game", "given" (a board passed to
                 \* Game), or "none" while no Game exists
    pc,          \* where the swipe in progress stands (step specification)
    writes,      \* the assignments to Game._board made by the last swipe
    observed     \* the board the last get_curr_state() returned

aux == <<start, pc, writes, observed>>
vars == <<board, prev, dir, next_board, outcome, calls, nswipes, row, op, result, aux>>

----------------------------------------------------------------------------
(* Program constants *)

MIN_POWER == 1
MAX_POWER == 11
HEIGHT == 4
WIDTH == 4
BLANK_TILE == 0

Direction == {"UP", "DOWN", "LEFT", "RIGHT"}

(* Exception kinds *)
RangeError == "TilePowerRange"      \* TilePower.__new__ : Exception("Needs to be ...")
ShapeError == "BoardShape"          \* Board.__new__ : Exception("Height/Width needs ...")
EndedError == "AlreadyEnded"        \* Game.swipe : Exception("Game has already ended")
IndexError == "IndexError"          \* random.choice on an empty list

(* Bounds of the model *)
NumRows == 7         \* how many rows of RowPool the argument boards are built from
NumGameRows == 3     \* how many rows of GamePool the initial game boards are built from
MaxSwipes == 2       \* how many swipe calls a play makes

----------------------------------------------------------------------------
(* Results of calls *)

Ok(v) == [exc |-> "none", val |-> v]
Raise(e) == [exc |-> e, val |-> <<>>]
Raised(r) == r.exc # "none"
\* r is evaluated once: the call has returned or raised before F runs
Then(r, F(_)) == CHOOSE y \in {IF Raised(v) THEN v ELSE F(v.val) : v \in {r}} : TRUE

Reverse(s) == [k \in 1..Len(s) |-> s[Len(s) + 1 - k]]

----------------------------------------------------------------------------
(* Tiles and boards *)

TilePower(x) ==
    IF ~(MIN_POWER <= x /\ x <= MAX_POWER) THEN Raise(RangeError) ELSE Ok(x)

Board(x) ==
    IF Len(x) # HEIGHT THEN Raise(ShapeError)
    ELSE IF \E j \in 1..Len(x) : Len(x[j]) # WIDTH THEN Raise(ShapeError)
    ELSE Ok(x)

RECURSIVE Flatten(_)
Flatten(b) == IF b = <<>> THEN <<>> ELSE Head(b) \o Flatten(Tail(b))

BoardEq(self, other) ==
    LET self_tiles == Flatten(self)
        other_tiles == Flatten(other)
        n == IF Len(self_tiles) < Len(other_tiles)
             THEN Len(self_tiles) ELSE Len(other_tiles)
    IN \A k \in 1..n : self_tiles[k] = other_tiles[k]

\* Mutant: the inequality test compares the two Board objects by identity, and a
\* transform always returns a new Board.
BoardNe_byIdentity(self, other) == TRUE

BoardNe(self, other) == ~BoardEq(self, other)

----------------------------------------------------------------------------
(* LeftTransform *)

\* Mutant: after a merge the index advances by one, so the second tile of the
\* merged pair is scanned again.
RECURSIVE merge_loop_stepOne(_, _, _)
merge_loop_stepOne(nonblank_tiles, i, new_row) ==
    IF ~(i <= Len(nonblank_tiles)) THEN Ok(new_row)
    ELSE LET curr_tile == nonblank_tiles[i]
             to_merge == i # Len(nonblank_tiles) /\ curr_tile = nonblank_tiles[i + 1]
         IN IF to_merge
            THEN Then(TilePower(curr_tile + 1),
                      LAMBDA t : merge_loop_stepOne(nonblank_tiles, i + 1, Append(new_row, t)))
            ELSE merge_loop_stepOne(nonblank_tiles, i + 1, Append(new_row, curr_tile))

\* Mutant: a merged pair becomes the tile two powers up.
RECURSIVE merge_loop_twoUp(_, _, _)
merge_loop_twoUp(nonblank_tiles, i, new_row) ==
    IF ~(i <= Len(nonblank_tiles)) THEN Ok(new_row)
    ELSE LET curr_tile == nonblank_tiles[i]
             to_merge == i # Len(nonblank_tiles) /\ curr_tile = nonblank_tiles[i + 1]
         IN IF to_merge
            THEN Then(TilePower(curr_tile + 2),
                      LAMBDA t : merge_loop_twoUp(nonblank_tiles, i + 2, Append(new_row, t)))
            ELSE merge_loop_twoUp(nonblank_tiles, i + 1, Append(new_row, curr_tile))

\* Mutant: a merged pair becomes one tile of the same power.
RECURSIVE merge_loop_keepPower(_, _, _)
merge_loop_keepPower(nonblank_tiles, i, new_row) ==
    IF ~(i <= Len(nonblank_tiles)) THEN Ok(new_row)
    ELSE LET curr_tile == nonblank_tiles[i]
             to_merge == i # Len(nonblank_tiles) /\ curr_tile = nonblank_tiles[i + 1]
         IN IF to_merge
            THEN Then(TilePower(curr_tile),
                      LAMBDA t : merge_loop_keepPower(nonblank_tiles, i + 2, Append(new_row, t)))
            ELSE merge_loop_keepPower(nonblank_tiles, i + 1, Append(new_row, curr_tile))

RECURSIVE merge_loop(_, _, _)
merge_loop(nonblank_tiles, i, new_row) ==
    IF ~(i <= Len(nonblank_tiles)) THEN Ok(new_row)
    ELSE LET curr_tile == nonblank_tiles[i]
             to_merge == i # Len(nonblank_tiles) /\ curr_tile = nonblank_tiles[i + 1]
         IN IF to_merge
            THEN Then(TilePower(curr_tile + 1),
                      LAMBDA t : merge_loop(nonblank_tiles, i + 2, Append(new_row, t)))
            ELSE merge_loop(nonblank_tiles, i + 1, Append(new_row, curr_tile))

\* Mutant: the new row is padded with the tail of the old row instead of blanks.
transform_row_padTail(r) ==
    LET nonblank_tiles == SelectSeq(r, LAMBDA x : x # BLANK_TILE)
    IN Then(merge_loop(nonblank_tiles, 1, <<>>),
            LAMBDA new_row : Ok(new_row \o SubSeq(r, Len(new_row) + 1, Len(r))))

transform_row(r) ==
    LET nonblank_tiles == SelectSeq(r, LAMBDA x : x # BLANK_TILE)
    IN Then(merge_loop(nonblank_tiles, 1, <<>>),
            LAMBDA new_row :
                Ok(new_row \o [k \in 1..(Len(r) - Len(new_row)) |-> BLANK_TILE]))

RECURSIVE transform_rows(_, _, _)
transform_rows(b, j, done) ==
    IF j > Len(b) THEN Ok(done)
    ELSE Then(transform_row(b[j]),
              LAMBDA new_row : transform_rows(b, j + 1, Append(done, new_row)))

LeftTransform(b) == Then(transform_rows(b, 1, <<>>), LAMBDA rows : Board(rows))

----------------------------------------------------------------------------
(* flipLeftRight, transpose and the three transforms derived from Left *)

flipLeftRight(b) == Board([j \in 1..Len(b) |-> Reverse(b[j])])

transpose(b) ==
    Board([i \in 1..Len(b[1]) |-> [j \in 1..Len(b) |-> b[j][i]]])

\* Mutant: the row reversal is not undone after the Left transform.
RightTransform_noFlipBack(b) ==
    Then(flipLeftRight(b), LAMBDA b1 : LeftTransform(b1))

RightTransform(b) ==
    Then(flipLeftRight(b), LAMBDA b1 :
    Then(LeftTransform(b1), LAMBDA b2 :
    flipLeftRight(b2)))

UpTransform(b) ==
    Then(transpose(b), LAMBDA b1 :
    Then(LeftTransform(b1), LAMBDA b2 :
    transpose(b2)))

\* Mutant: the way back composes the transpose and the flip in the order of the
\* way in.
DownTransform_wrongOrder(b) ==
    Then(transpose(b), LAMBDA b1 :
    Then(flipLeftRight(b1), LAMBDA b2 :
    Then(LeftTransform(b2), LAMBDA b3 :
    Then(transpose(b3), LAMBDA b4 :
    flipLeftRight(b4)))))

DownTransform(b) ==
    Then(transpose(b), LAMBDA b1 :
    Then(flipLeftRight(b1), LAMBDA b2 :
    Then(LeftTransform(b2), LAMBDA b3 :
    Then(flipLeftRight(b3), LAMBDA b4 :
    transpose(b4)))))

transforms(direction, b) ==
    CASE direction = "UP" -> UpTransform(b)
      [] direction = "DOWN" -> DownTransform(b)
      [] direction = "LEFT" -> LeftTransform(b)
      [] direction = "RIGHT" -> RightTransform(b)

----------------------------------------------------------------------------
(* SpawnTransform: random.choice and random.random are choices, so the     *)
(* transform is the set of results it can produce.                         *)

\* Mutant: the locations are returned as (column, row).
get_blank_locations_swapped(b) ==
    {<<i, j>> \in (1..WIDTH) \X (1..Len(b)) : b[j][i] = BLANK_TILE}

get_blank_locations(b) ==
    {<<j, i>> \in (1..Len(b)) \X (1..WIDTH) : b[j][i] = BLANK_TILE}

\* Mutant: the new tile is the blank tile.
get_new_tile_blank == {Ok(BLANK_TILE)}

get_new_tile == {TilePower(2), TilePower(1)}

SpawnTransform(b) ==
    IF get_blank_locations(b) = {}
    THEN {Raise(IndexError)}
    ELSE {Then(t, LAMBDA tile : Board([b EXCEPT ![loc[1]][loc[2]] = tile])) :
             loc \in get_blank_locations(b), t \in get_new_tile}

----------------------------------------------------------------------------
(* Game *)

has_succeeded(b) ==
    \E j \in 1..Len(b) : \E i \in 1..Len(b[j]) : b[j][i] = TilePower(MAX_POWER).val

\* Mutant: a board that holds the maximal tile is not reported as failed.
has_failed_unlessWon(b) ==
    /\ ~(\E j \in 1..Len(b) : \E i \in 1..Len(b[j]) : b[j][i] = BLANK_TILE)
    /\ ~has_succeeded(b)

has_failed(b) ==
    ~(\E j \in 1..Len(b) : \E i \in 1..Len(b[j]) : b[j][i] = BLANK_TILE)

\* Mutant: the end of the game is the success alone.
has_ended_onlySucceeded(b) == has_succeeded(b)

has_ended(b) == has_succeeded(b) \/ has_failed(b)

swipe(direction) ==
    /\ nswipes < MaxSwipes
    /\ nswipes' = nswipes + 1
    /\ prev' = board
    /\ dir' = direction
    /\ UNCHANGED <<row, op, result, aux>>
    /\ IF has_ended(board)
       THEN /\ outcome' = EndedError
            /\ calls' = <<>>
            /\ next_board' = <<>>
            /\ board' = board
       ELSE \E t \in {transforms(direction, board)} :
               IF Raised(t)
               THEN /\ outcome' = t.exc
                    /\ calls' = <<direction>>
                    /\ next_board' = <<>>
                    /\ board' = board
               ELSE /\ next_board' = t.val
                    /\ IF BoardNe(t.val, board)
                       THEN /\ calls' = <<direction, "SPAWN">>
                            /\ \E s \in SpawnTransform(t.val) :
                                  IF Raised(s)
                                  THEN outcome' = s.exc /\ board' = board
                                  ELSE outcome' = "spawned" /\ board' = s.val
                       ELSE /\ calls' = <<direction>>
                            /\ outcome' = "noop"
                            /\ board' = board

----------------------------------------------------------------------------
(* The boards the specifications start from.  Game takes any Board as its  *)
(* initial state (generate_random_board makes every cell blank or a power  *)
(* in 1..11); the boards here are built from the rows of a pool.           *)

RowPool ==
    << <<0, 0, 0, 0>>,
       <<1, 2, 1, 2>>,
       <<2, 1, 2, 3>>,
       <<1, 1, 0, 2>>,
       <<0, 10, 10, 0>>,
       <<11, 11, 0, 3>>,
       <<3, 11, 4, 1>>,
       <<1, 1, 1, 1>>,
       <<5, 0, 5, 5>> >>

GamePool ==
    << <<1, 2, 1, 2>>,
       <<2, 1, 3, 0>>,
       <<10, 10, 2, 1>>,
       <<11, 0, 1, 1>>,
       <<3, 4, 3, 4>> >>

Prefix(pool, n) == {pool[k] : k \in 1..(IF n < Len(pool) THEN n ELSE Len(pool))}

PoolBoards == [1..HEIGHT -> Prefix(RowPool, NumRows)]
\* the initial boards of a game: those whose last row repeats the first
GameBoards == {b \in [1..HEIGHT -> Prefix(GamePool, NumGameRows)] : b[HEIGHT] = b[1]}

----------------------------------------------------------------------------
(* Specification of the operations on a board, each applied once to a      *)
(* board of PoolBoards                                                      *)

InitBoard ==
    /\ board \in PoolBoards
    /\ op = "init"
    /\ result = Ok(<<>>)
    /\ row = <<>>
    /\ prev = <<>>
    /\ dir = "none"
    /\ next_board = <<>>
    /\ outcome = "none"
    /\ calls = <<>>
    /\ nswipes = 0
    /\ start = "given" /\ pc = "idle" /\ writes = 0 /\ observed = <<>>

Apply(name, r) ==
    /\ op = "init"
    /\ op' = name
    /\ result' = r
    /\ UNCHANGED <<board, prev, dir, next_board, outcome, calls, nswipes, row, aux>>

DoTransform == \E direction \in Direction : Apply(direction, transforms(direction, board))
DoSpawn == \E s \in SpawnTransform(board) : Apply("SPAWN", s)
DoHasSucceeded == Apply("has_succeeded", Ok(has_succeeded(board)))
DoHasFailed == Apply("has_failed", Ok(has_failed(board)))
DoHasEnded == Apply("has_ended", Ok(has_ended(board)))

NextBoard == DoTransform \/ DoSpawn \/ DoHasSucceeded \/ DoHasFailed \/ DoHasEnded

SpecBoard == InitBoard /\ [][NextBoard]_vars

----------------------------------------------------------------------------
(* Specification of a game: Game(initialState), then swipes *)

Init ==
    /\ board \in GameBoards
    /\ prev = <<>>
    /\ dir = "none"
    /\ next_board = <<>>
    /\ outcome = "none"
    /\ calls = <<>>
    /\ nswipes = 0
    /\ start = "given" /\ pc = "idle" /\ writes = 0 /\ observed = <<>>
    /\ row = <<>>
    /\ op = "init"
    /\ result = Ok(<<>>)

Next == \E direction \in Direction : swipe(direction)

Spec == Init /\ [][Next]_vars

----------------------------------------------------------------------------
(* Specification of a play from the construction of the game on: no Game   *)
(* exists at first, Game(initialState) makes one on a board of GameBoards, *)
(* then swipes follow.                                                     *)

InitPlay ==
    /\ board = <<>>
    /\ prev = <<>>
    /\ dir = "none"
    /\ next_board = <<>>
    /\ outcome = "none"
    /\ calls = <<>>
    /\ nswipes = 0
    /\ row = <<>>
    /\ op = "init"
    /\ result = Ok(<<>>)
    /\ start = "none" /\ pc = "idle" /\ writes = 0 /\ observed = <<>>

Game_init ==
    /\ start = "none"
    /\ start' = "given"
    /\ board' \in GameBoards
    /\ UNCHANGED <<prev, dir, next_board, outcome, calls, nswipes, row, op, result,
                   pc, writes, observed>>

NextPlay == Game_init \/ (start # "none" /\ \E direction \in Direction : swipe(direction))

SpecPlay == InitPlay /\ [][NextPlay]_vars

----------------------------------------------------------------------------
(* Specification of run_game: the game starts from one spawn on the empty  *)
(* board (lines 230-232) and every arrow key press calls swipe (line 244). *)
(* A play of two swipes from this start never merges tiles above Power(3), *)
(* so the specification also starts games from the boards of GameBoards,   *)
(* which hold Power(10) pairs; start tells the two kinds of play apart.    *)
(* A sparse board has some thirty spawns after each swipe, so a play from  *)
(* the run_game start makes one swipe fewer than a play from a given board.*)

EMPTY_BOARD == [j \in 1..WIDTH |-> [c \in 1..HEIGHT |-> BLANK_TILE]]

initial_state == {s.val : s \in {x \in SpawnTransform(EMPTY_BOARD) : ~Raised(x)}}

InitRun ==
    /\ \/ start = "run_game" /\ board \in initial_state
       \/ start = "given" /\ board \in GameBoards
    /\ prev = <<>>
    /\ dir = "none"
    /\ next_board = <<>>
    /\ outcome = "none"
    /\ calls = <<>>
    /\ nswipes = 0
    /\ row = <<>>
    /\ op = "init"
    /\ result = Ok(<<>>)
    /\ pc = "idle"
    /\ writes = 0
    /\ observed = <<>>

on_arrow_keypress(direction) ==
    /\ start = "run_game" => nswipes < MaxSwipes - 1
    /\ swipe(direction)

NextRun == \E direction \in Direction : on_arrow_keypress(direction)

SpecRun == InitRun /\ [][NextRun]_vars

\* The player who, while the game has not ended, keeps coming back to a
\* direction that changes the board: a swipe that replaces the board is taken
\* if it stays possible.
ChangingSwipe == \E direction \in Direction : on_arrow_keypress(direction) /\ board' # board

SpecRunFair == InitRun /\ [][NextRun]_vars /\ WF_vars(ChangingSwipe)

----------------------------------------------------------------------------
(* Specification of swipe statement by statement, with a reader of the     *)
(* current board: the check of has_ended (lines 197-198), the directional  *)
(* transform into the local next_board (line 205), and the comparison with *)
(* the assignment of the spawned board to _board (lines 206-207).          *)
(* get_curr_state may run between any two of these steps.  The boards are  *)
(* nearly full and the steps many, so a play makes one swipe fewer here.   *)

swipe_check(direction) ==
    /\ pc = "idle"
    /\ nswipes < MaxSwipes - 1
    /\ nswipes' = nswipes + 1
    /\ prev' = board
    /\ dir' = direction
    /\ writes' = 0
    /\ calls' = <<>>
    /\ next_board' = <<>>
    /\ IF has_ended(board)
       THEN outcome' = EndedError /\ pc' = "idle"
       ELSE outcome' = "running" /\ pc' = "transform"
    /\ UNCHANGED <<board, row, op, result, start, observed>>

\* Mutant: the transformed board is stored in _board itself, before the spawn.
swipe_transform_inPlace ==
    /\ pc = "transform"
    /\ calls' = <<dir>>
    /\ \E t \in {transforms(dir, board)} :
          IF Raised(t)
          THEN /\ outcome' = t.exc /\ pc' = "idle"
               /\ UNCHANGED <<next_board, board, writes>>
          ELSE /\ next_board' = t.val /\ pc' = "compare"
               /\ board' = t.val /\ writes' = writes + 1
               /\ UNCHANGED outcome
    /\ UNCHANGED <<prev, dir, nswipes, row, op, result, start, observed>>

swipe_transform ==
    /\ pc = "transform"
    /\ calls' = <<dir>>
    /\ \E t \in {transforms(dir, board)} :
          IF Raised(t)
          THEN outcome' = t.exc /\ pc' = "idle" /\ UNCHANGED next_board
          ELSE next_board' = t.val /\ pc' = "compare" /\ UNCHANGED outcome
    /\ UNCHANGED <<board, writes, prev, dir, nswipes, row, op, result, start, observed>>

swipe_assign ==
    /\ pc = "compare"
    /\ pc' = "idle"
    /\ IF BoardNe(next_board, board)
       THEN /\ calls' = Append(calls, "SPAWN")
            /\ \E s \in SpawnTransform(next_board) :
                  IF Raised(s)
                  THEN outcome' = s.exc /\ UNCHANGED <<board, writes>>
                  ELSE outcome' = "spawned" /\ board' = s.val /\ writes' = writes + 1
       ELSE /\ outcome' = "noop"
            /\ UNCHANGED <<board, writes, calls>>
    /\ UNCHANGED <<next_board, prev, dir, nswipes, row, op, result, start, observed>>

get_curr_state ==
    /\ observed # board
    /\ observed' = board
    /\ UNCHANGED <<board, prev, dir, next_board, outcome, calls, nswipes, row, op,
                   result, start, pc, writes>>

NextSteps ==
    \/ \E direction \in Direction : swipe_check(direction)
    \/ swipe_transform
    \/ swipe_assign
    \/ get_curr_state

SpecSteps == Init /\ [][NextSteps]_vars

----------------------------------------------------------------------------
(* Specification of transform_row on every row of width WIDTH *)

InitRow ==
    /\ row \in [1..WIDTH -> 0..MAX_POWER]
    /\ op = "init"
    /\ result = Ok(<<>>)
    /\ board = <<>>
    /\ prev = <<>>
    /\ dir = "none"
    /\ next_board = <<>>
    /\ outcome = "none"
    /\ calls = <<>>
    /\ nswipes = 0
    /\ start = "given" /\ pc = "idle" /\ writes = 0 /\ observed = <<>>

ApplyRow ==
    /\ op = "init"
    /\ op' = "transform_row"
    /\ result' = transform_row(row)
    /\ UNCHANGED <<board, prev, dir, next_board, outcome, calls, nswipes, row, aux>>

NextRow == ApplyRow

SpecRow == InitRow /\ [][NextRow]_vars

----------------------------------------------------------------------------
(* The compact-and-merge of a row, stated without the loop: the non-empty   *)
(* tiles are cut into blocks, a block being a tile with its immediate       *)
(* successor when the two are equal and a single tile otherwise; the cut    *)
(* starts at the first tile and each block starts where the last one ended. *)

NonEmptyAt(r) == {p \in 1..Len(r) : r[p] # 0}
KthOf(S, k) == CHOOSE p \in S : Cardinality({q \in S : q < p}) = k - 1
TilesOf(r) == [k \in 1..Cardinality(NonEmptyAt(r)) |-> r[KthOf(NonEmptyAt(r), k)]]
IsPair(t, i) == i < Len(t) /\ t[i] = t[i + 1]
BlockEnd(t, i) == IF IsPair(t, i) THEN i + 2 ELSE i + 1
BlockStarts(t) ==
    CHOOSE S \in SUBSET (1..Len(t)) :
        /\ Len(t) > 0 => 1 \in S
        /\ \A i \in S : BlockEnd(t, i) <= Len(t) => BlockEnd(t, i) \in S
        /\ \A j \in S : j # 1 => \E i \in S : BlockEnd(t, i) = j
MergedRow(r) ==
    LET t == TilesOf(r)
        S == BlockStarts(t)
    IN [k \in 1..Len(r) |->
          IF k <= Cardinality(S)
          THEN LET i == KthOf(S, k) IN IF IsPair(t, i) THEN t[i] + 1 ELSE t[i]
          ELSE 0]
MergesMaxPower(r) ==
    LET t == TilesOf(r) IN \E i \in BlockStarts(t) : IsPair(t, i) /\ t[i] = 11

\* C5: for every row, the Left transform produces the row's non-empty tiles in
\* order with each tile that equals its immediate successor replaced, together
\* with that successor, by one tile of the next power (one left-to-right scan, a
\* merged tile never merging again), followed by Empty cells up to width 4.
C5_LeftRowIsSinglePassMerge ==
    op = "transform_row" =>
        /\ result.exc = "none"
        /\ result.val = MergedRow(row)
        /\ (row = <<1, 1, 1, 1>> => result.val = <<2, 2, 0, 0>>)
        /\ (row = <<1, 1, 2, 0>> => result.val = <<2, 2, 0, 0>>)

\* What transform_row does on every row: it raises exactly when the scan pairs
\* two tiles of power 11, and otherwise returns the single-pass merge.
RowMergeUnlessMaxPair ==
    op = "transform_row" =>
        /\ Raised(result) <=> MergesMaxPower(row)
        /\ Raised(result) => result.exc = RangeError
        /\ ~Raised(result) => result.val = MergedRow(row)
        /\ (row = <<1, 1, 1, 1>> => result = Ok(<<2, 2, 0, 0>>))
        /\ (row = <<1, 1, 2, 0>> => result = Ok(<<2, 2, 0, 0>>))

----------------------------------------------------------------------------
(* Vocabulary of the properties, stated on cells *)

Cells == (1..4) \X (1..4)
At(b, cell) == b[cell[1]][cell[2]]
EmptyCells(b) == {cell \in Cells : At(b, cell) = 0}
TileCells(b) == Cells \ EmptyCells(b)
IsFull(b) == EmptyCells(b) = {}
HoldsMax(b) == \E cell \in Cells : At(b, cell) = 11
Ended(b) == HoldsMax(b) \/ IsFull(b)
Swiped == nswipes > 0
\* the outcomes of the directional transform of the last swipe, applied to the
\* board the swipe was called on (one outcome; none before the first swipe)
Transformed == IF Swiped THEN {transforms(dir, prev)} ELSE {}
Changed(T, b) == ~Raised(T) /\ ~BoardEq(T.val, b)

----------------------------------------------------------------------------
(* Properties of Game.swipe, checked under Spec *)

\* C1: on every board where has_ended() is true (a cell holds Power(11), or no
\* cell is Empty), a swipe in any direction fails with the 'already ended'
\* error, applies no transform and no spawn, and leaves the board unchanged.
C1_SwipeOnEndedBoardFails ==
    (Swiped /\ Ended(prev)) =>
        /\ dir \in Direction
        /\ outcome = "AlreadyEnded"
        /\ calls = <<>>
        /\ next_board = <<>>
        /\ board = prev

C1_Witness ==
    /\ Swiped /\ dir = "UP"
    /\ HoldsMax(prev) /\ ~IsFull(prev)
    /\ outcome = "AlreadyEnded"

\* C2: in a game that has not ended, a swipe whose directional transform yields
\* a board equal to the current one spawns nothing and leaves the current board
\* as it was.
C2_NoOpSwipeKeepsBoard ==
    (Swiped /\ ~Ended(prev) /\ next_board = prev) =>
        /\ outcome = "noop"
        /\ calls = <<dir>>
        /\ board = prev

C2_Witness ==
    /\ Swiped /\ ~Ended(prev)
    /\ next_board = prev
    /\ outcome = "noop" /\ board = prev

\* C3: in a game that has not ended, a swipe whose directional transform T
\* changes the board B leaves a board that differs from T(B) in exactly one cell,
\* Empty in T(B) and Power(1) or Power(2) afterwards, so with one more non-empty
\* cell than T(B); and every empty cell of T(B) and both powers can be chosen
\* (the choices are enumerated on every board a play starts from).
C3_SpawnAddsOneTile ==
    /\ \A T \in Transformed :
          (~Ended(prev) /\ Changed(T, prev)) =>
              /\ outcome = "spawned"
              /\ calls = <<dir, "SPAWN">>
              /\ next_board = T.val
              /\ \E cell \in Cells :
                    /\ {c \in Cells : At(board, c) # At(T.val, c)} = {cell}
                    /\ At(T.val, cell) = 0
                    /\ At(board, cell) \in {1, 2}
              /\ Cardinality(TileCells(board)) = Cardinality(TileCells(T.val)) + 1
    /\ (nswipes = 0 /\ ~Ended(board)) =>
          \A d \in Direction : \A T \in {transforms(d, board)} :
              Changed(T, board) =>
                  \A cell \in EmptyCells(T.val) : \A n \in {1, 2} :
                      ENABLED (/\ board' = [T.val EXCEPT ![cell[1]][cell[2]] = n]
                               /\ swipe(d))

C3_Witness ==
    /\ Swiped /\ ~Ended(prev)
    /\ outcome = "spawned"
    /\ next_board # prev
    /\ \E cell \in Cells : At(next_board, cell) = 0 /\ At(board, cell) = 2
    /\ Cardinality(EmptyCells(next_board)) > 1

\* C10: in every play of swipes from a board that has not ended, the Spawn
\* transform is never invoked on a full board: whenever a directional transform
\* changes a board that has not ended, its result has an Empty cell.
C10_SpawnNeverOnFullBoard ==
    /\ (Swiped /\ ~Ended(prev) /\ next_board # prev) => ~IsFull(next_board)
    /\ (Swiped /\ \E k \in 1..Len(calls) : calls[k] = "SPAWN") =>
          /\ ~IsFull(next_board)
          /\ outcome # "IndexError"

C10_Witness ==
    /\ Swiped /\ ~Ended(prev)
    /\ next_board # prev
    /\ Cardinality(EmptyCells(prev)) = 1
    /\ Cardinality(EmptyCells(next_board)) = 1
    /\ outcome = "spawned" /\ IsFull(board)

----------------------------------------------------------------------------
(* Properties of the operations on a board, checked under SpecBoard *)

Column(b, c) == [r \in 1..4 |-> b[r][c]]
ReflectH(b) == [r \in 1..4 |-> [c \in 1..4 |-> b[r][5 - c]]]
Transposed(b) == [r \in 1..4 |-> [c \in 1..4 |-> b[c][r]]]
IsBoard(b) ==
    /\ DOMAIN b = 1..4
    /\ \A r \in 1..4 : DOMAIN b[r] = 1..4 /\ \A c \in 1..4 : b[r][c] \in 0..11
NoAdjacentEqual(b) ==
    /\ \A r \in 1..4 : \A c \in 1..3 : b[r][c] # b[r][c + 1]
    /\ \A r \in 1..3 : \A c \in 1..4 : b[r][c] # b[r + 1][c]

\* C4: has_succeeded() is true iff at least one cell holds Power(11);
\* has_failed() is true iff no cell is Empty, whether or not a Power(11) cell
\* exists or adjacent equal tiles could still merge; has_ended() is true iff
\* one of the two is.  A full board with no Power(11) cell reports failed and
\* not succeeded.
C4_EndQueries ==
    /\ op = "has_succeeded" =>
          (result.val <=> Cardinality({cell \in Cells : At(board, cell) = 11}) >= 1)
    /\ op = "has_failed" =>
          (result.val <=> Cardinality(EmptyCells(board)) = 0)
    /\ op = "has_ended" =>
          (result.val <=> (HoldsMax(board) \/ IsFull(board)))
    /\ (IsFull(board) /\ ~HoldsMax(board)) =>
          /\ op = "has_failed" => result.val
          /\ op = "has_succeeded" => ~result.val

C4_Witness ==
    /\ op = "has_failed" /\ result.val
    /\ HoldsMax(board)
    /\ ~NoAdjacentEqual(board)

\* C6: on every board where the transform succeeds, Right is Left between two
\* row reversals, Up is Left between two transpositions and Down is Left between
\* transposition-then-reversal and its inverse: Right merges each row read right
\* to left, Up each column read top to bottom, Down each column read bottom to
\* top, and the tiles end packed against the right, top and bottom edge.
C6_DerivedDirections ==
    (op \in {"RIGHT", "UP", "DOWN"} /\ ~Raised(result)) =>
        \A B \in {result.val} :
            /\ IsBoard(B)
            /\ op = "RIGHT" =>
                  /\ \A L \in {LeftTransform(ReflectH(board))} :
                        ~Raised(L) /\ B = ReflectH(L.val)
                  /\ \A r \in 1..4 : Reverse(B[r]) = MergedRow(Reverse(board[r]))
                  /\ \A r \in 1..4 : \A c \in 1..3 : B[r][c] # 0 => B[r][c + 1] # 0
            /\ op = "UP" =>
                  /\ \A L \in {LeftTransform(Transposed(board))} :
                        ~Raised(L) /\ B = Transposed(L.val)
                  /\ \A c \in 1..4 : Column(B, c) = MergedRow(Column(board, c))
                  /\ \A r \in 2..4 : \A c \in 1..4 : B[r][c] # 0 => B[r - 1][c] # 0
            /\ op = "DOWN" =>
                  /\ \A L \in {LeftTransform(ReflectH(Transposed(board)))} :
                        ~Raised(L) /\ B = Transposed(ReflectH(L.val))
                  /\ \A c \in 1..4 :
                        Reverse(Column(B, c)) = MergedRow(Reverse(Column(board, c)))
                  /\ \A r \in 1..3 : \A c \in 1..4 : B[r][c] # 0 => B[r + 1][c] # 0

C6_Witness ==
    /\ op = "DOWN" /\ ~Raised(result)
    /\ result.val # board
    /\ Cardinality(TileCells(result.val)) < Cardinality(TileCells(board))
    /\ result.val # Transposed(board)

\* C7: a board with no Empty cell and no two horizontally or vertically
\* adjacent cells of the same power is a fixed point of Left, Right, Up and
\* Down, under Board equality.
C7_FullUnmergeableIsFixedPoint ==
    (op \in Direction /\ IsFull(board) /\ NoAdjacentEqual(board)) =>
        /\ ~Raised(result)
        /\ BoardEq(result.val, board)
        /\ result.val = board

C7_Witness ==
    /\ op = "RIGHT" /\ IsFull(board) /\ NoAdjacentEqual(board)
    /\ board # ReflectH(board)
    /\ HoldsMax(board)
    /\ result = Ok(board)

\* C8: Left, Right, Up and Down are total over well-formed boards: on every
\* 4x4 board of Empty and Power(1..11) cells, two adjacent Power(11) tiles
\* included, each returns a board and never fails.
C8_TransformsAreTotal ==
    (op \in Direction /\ IsBoard(board)) => (~Raised(result) /\ IsBoard(result.val))

\* C9: the Spawn transform applied to a board with no Empty cell ends in an
\* explicit exhaustion error, not in an index into an empty selection, and
\* produces no board.
C9_SpawnOnFullBoardIsExplicitError ==
    (op = "SPAWN" /\ IsFull(board)) =>
        /\ Raised(result)
        /\ result.exc # "IndexError"
        /\ result.val = <<>>

----------------------------------------------------------------------------
(* Properties of whole plays, checked under SpecPlay *)

\* the last swipe produced the first Power(11) tile of the play
WinningSwipe == Swiped /\ ~Ended(prev) /\ outcome = "spawned" /\ HoldsMax(board)
FilledOnWinningSwipe == WinningSwipe /\ has_succeeded(board) /\ has_failed(board)

\* C11 (as claimed): the board can fill on the winning move: there is a play of
\* swipes from a board that has not ended in which the swipe that first produces
\* a Power(11) tile leaves, after its spawn, a board with no Empty cell, where
\* has_succeeded() and has_failed() are both true.  Stated of the state in which
\* no Game exists yet: some Game(initialState) and some swipes lead there.
C11_BoardCanFillOnWinningMove ==
    start = "none" =>
        ENABLED (Game_init /\
            (ENABLED (NextPlay /\
                (FilledOnWinningSwipe \/ ENABLED (NextPlay /\ FilledOnWinningSwipe'))'))')

\* C11 (amended): the board cannot fill on the winning move: a swipe that
\* produces the first Power(11) tile merges two tiles of a board that had an
\* Empty cell, so after its spawn the board still has an Empty cell, and
\* has_succeeded() and has_failed() are never both true in a state a
\* board-changing swipe has reached.
C11_WinningMoveLeavesEmptyCell ==
    /\ (Swiped /\ ~Ended(prev) /\ HoldsMax(board)) =>
          /\ outcome = "spawned"
          /\ Cardinality(EmptyCells(next_board)) >= 2
          /\ Cardinality(EmptyCells(board)) >= 1
          /\ has_succeeded(board) /\ ~has_failed(board)
    /\ (Swiped /\ board # prev) => ~(has_succeeded(board) /\ has_failed(board))

C11_Witness ==
    /\ WinningSwipe
    /\ Cardinality(EmptyCells(prev)) = 1
    /\ Cardinality(EmptyCells(board)) = 1
    /\ has_succeeded(board) /\ ~has_failed(board)

----------------------------------------------------------------------------
(* Property of the steps of swipe, checked under SpecSteps *)

\* the board b is the board a with one tile put into one of its Empty cells
SpawnedFrom(b, a) ==
    \E cell \in Cells :
        /\ {c \in Cells : At(b, c) # At(a, c)} = {cell}
        /\ At(a, cell) = 0

\* C12: with swipes processed one after the other, the current board is
\* replaced wholesale at most once per swipe: every step leaves _board as it was
\* or replaces it, in the last step of the swipe and once, by the fully spawned
\* board; what get_curr_state() returns is a whole board that is the board before
\* the swipe or the board after it, never the transformed board before its
\* spawn.
C12_BoardReplacedOncePerSwipe ==
    [][/\ writes' <= 1
       /\ board' # board =>
             /\ pc = "compare" /\ pc' = "idle"
             /\ writes = 0 /\ writes' = 1
             /\ board = prev'
             /\ SpawnedFrom(board', next_board')
       /\ observed' # observed =>
             /\ IsBoard(observed')
             /\ \/ nswipes' = 0
                \/ observed' = prev'
                \/ pc' = "idle" /\ outcome' = "spawned" /\ SpawnedFrom(observed', next_board')
             /\ (next_board' # <<>> /\ next_board' # prev') => observed' # next_board'
      ]_vars

C12_Witness ==
    /\ pc = "idle" /\ outcome = "spawned" /\ writes = 1
    /\ observed = board
    /\ observed # prev /\ observed # next_board

----------------------------------------------------------------------------
(* Properties of the plays of run_game, checked under SpecRun *)

\* two equal tiles of the power below MAX_POWER stand next to each other in a
\* row or a column of b, with only Empty cells between them
MaxMergeReady(b) ==
    \E c1 \in Cells, c2 \in Cells :
        /\ c1 # c2 /\ At(b, c1) = 10 /\ At(b, c2) = 10
        /\ \/ c1[1] = c2[1] /\ c1[2] < c2[2]
              /\ \A k \in (c1[2] + 1)..(c2[2] - 1) : b[c1[1]][k] = 0
           \/ c1[2] = c2[2] /\ c1[1] < c2[1]
              /\ \A k \in (c1[1] + 1)..(c2[1] - 1) : b[k][c1[2]] = 0

\* C13: in every state of a play every cell is Empty or a Power(n) with
\* 1 <= n <= 11, and a swipe issued on a board that has not ended never fails
\* with the tile range error: it ends as a no-op or with the spawned board.
C13_TilesStayInRange ==
    /\ IsBoard(board)
    /\ (Swiped /\ ~Ended(prev)) =>
          /\ outcome # RangeError
          /\ outcome \in {"spawned", "noop"}
          /\ IsBoard(next_board)
          /\ ~HoldsMax(prev)

\* a swipe on a non-ended board merged two Power(10) tiles into Power(11)
C13_Witness ==
    /\ Swiped /\ ~Ended(prev) /\ MaxMergeReady(prev)
    /\ outcome = "spawned"
    /\ HoldsMax(next_board) /\ IsBoard(board)

\* C14: the game cannot get stuck in progress: in every state of a play whose
\* board has not ended, the board holds at least one tile and at least one of
\* the four directions yields a transformed board different from the board.
C14_GameNeverStuck ==
    ~has_ended(board) =>
        /\ TileCells(board) # {}
        /\ \E direction \in Direction :
              \E T \in {transforms(direction, board)} : Changed(T, board)

\* after a no-op swipe from the run_game start the game has not ended: the
\* direction just swiped leaves the board as it is and another one changes it
C14_Witness ==
    /\ start = "run_game" /\ Swiped /\ outcome = "noop"
    /\ ~has_ended(board)
    /\ \E direction \in Direction :
          \E T \in {transforms(direction, board)} : Changed(T, board)
    /\ \E T \in {transforms(dir, board)} : ~Changed(T, board)

----------------------------------------------------------------------------
(* Displayed values: the sum and the number of the tiles of a board *)

Value(t) == IF t = 0 THEN 0 ELSE 2 ^ t

RowSum(r) == Value(r[1]) + Value(r[2]) + Value(r[3]) + Value(r[4])
DisplayedSum(b) == RowSum(b[1]) + RowSum(b[2]) + RowSum(b[3]) + RowSum(b[4])
TileCount(b) == Cardinality(TileCells(b))

\* the transform applied to b returned a board with the sum of b and with no
\* more tiles than b
Conserves(T, b) ==
    /\ ~Raised(T)
    /\ DisplayedSum(T.val) = DisplayedSum(b)
    /\ TileCount(T.val) <= TileCount(b)

\* a swipe that changed the board added one new tile of value 2 or 4 to the
\* transformed board, and a no-op swipe left sum and count as they were
SwipeAddsNewTile ==
    /\ (Swiped /\ outcome = "spawned") =>
          /\ board # prev
          /\ DisplayedSum(next_board) = DisplayedSum(prev)
          /\ TileCount(next_board) <= TileCount(prev)
          /\ DisplayedSum(board) - DisplayedSum(prev) \in {2, 4}
          /\ TileCount(board) <= TileCount(prev) + 1
    /\ (Swiped /\ outcome = "noop") =>
          /\ DisplayedSum(board) = DisplayedSum(prev)
          /\ TileCount(board) = TileCount(prev)
    /\ (Swiped /\ board # prev) => outcome = "spawned"

\* C15: each directional transform conserves the sum of the displayed values
\* (2^n over the non-empty cells) of the board it is applied to and never
\* increases the number of non-empty cells; every board-changing swipe raises
\* the sum by exactly 2 or 4 and the number of non-empty cells by at most one,
\* and every no-op swipe leaves both unchanged.
C15_TransformsConserveSum ==
    /\ (op \in Direction /\ IsBoard(board)) => Conserves(result, board)
    /\ SwipeAddsNewTile

\* What the transforms do on every board: a transform raises exactly on the
\* boards where C8 fails, and conserves sum and count whenever it returns.
TransformConservesSumUnlessRaised ==
    (op \in Direction /\ IsBoard(board)) =>
        /\ Raised(result) => result.exc = RangeError /\ HoldsMax(board)
        /\ ~Raised(result) => Conserves(result, board)

\* What swipe does in every play: the part of C15 about swipes, with a swipe
\* that merged tiles and so lowered the count before the spawn.
SwipeAddsNewTileInPlays ==
    /\ SwipeAddsNewTile
    /\ \A direction \in Direction :
          \A T \in {transforms(direction, board)} :
              ~Ended(board) => Conserves(T, board)

----------------------------------------------------------------------------
(* Termination of the plays, checked under SpecRun and SpecRunFair *)

\* the largest displayed sum a board can have
MaxSum == HEIGHT * WIDTH * (2 ^ MAX_POWER)

\* the play has made all the swipes this specification lets it make
OutOfSwipes ==
    IF start = "run_game" THEN nswipes >= MaxSwipes - 1 ELSE nswipes >= MaxSwipes

\* C16: every play in which the player, while the game has not ended, comes
\* back to a direction that changes the board reaches has_ended() after
\* finitely many board-changing swipes, and no play has infinitely many of
\* them.  Stated by its variant: every swipe that changes the board raises the
\* displayed sum by 2 or 4, the sum never exceeds MaxSum, a board that has
\* ended is never changed, and in every state the game has ended or a
\* board-changing swipe is possible (unless the swipes explored are used up).
C16_PlaysEndAfterFinitelyManySwipes ==
    /\ [][board' # board =>
             /\ DisplayedSum(board') - DisplayedSum(board) \in {2, 4}
             /\ DisplayedSum(board') <= MaxSum
             /\ ~has_ended(board)]_vars
    /\ [](OutOfSwipes \/ has_ended(board) \/ ENABLED ChangingSwipe)

\* a play ended by a board-changing swipe that filled the board
C16_Witness ==
    /\ Swiped /\ outcome = "spawned" /\ ~Ended(prev)
    /\ DisplayedSum(board) > DisplayedSum(prev)
    /\ has_failed(board) /\ ~has_succeeded(board) /\ has_ended(board)
    /\ ~OutOfSwipes

\* The same plays under the fairness of SpecRunFair: a play goes on until
\* has_ended() holds or the swipes explored are used up.
PlaysReachEndUnderFairness == <>(has_ended(board) \/ OutOfSwipes)

====
